---- MODULE Spec2Model ----
(***************************************************************************)
(* kube-gather (module kube-query), src/main.go: a single-pass command   *)
(* line tool that fetches named Deployments, ConfigMaps and Secrets from  *)
(* a cluster and appends them, with the pod logs of each deployment, to   *)
(* a local SQLite file.                                                   *)
(*                                                                         *)
(* Text is modelled as a sequence of tokens: a token is a separator       *)
(* (":" or a newline), a word that holds no separator, or, inside the     *)
(* JSON encoder, one character.  Byte strings are sequences of 0..255.    *)
(***************************************************************************)
EXTENDS Integers, Sequences, FiniteSets, TLC

(***************************************************************************)
(* Bounds of the model.                                                    *)
(***************************************************************************)
MaxEntries == 2
MaxCalls == 2

(***************************************************************************)
(* strings.Split / strings.Join on token sequences.                         *)
(***************************************************************************)
Colon == ":"
Newline == "\n"

RECURSIVE Split(_, _)
Split(s, sep) ==
  IF \A i \in DOMAIN s : s[i] # sep
  THEN <<s>>
  ELSE LET i == CHOOSE k \in DOMAIN s :
                   s[k] = sep /\ \A j \in 1..(k - 1) : s[j] # sep
       IN <<SubSeq(s, 1, i - 1)>> \o Split(SubSeq(s, i + 1, Len(s)), sep)

RECURSIVE Join(_, _)
Join(ss, sep) ==
  IF Len(ss) = 0 THEN <<>>
  ELSE IF Len(ss) = 1 THEN ss[1]
  ELSE ss[1] \o <<sep>> \o Join(Tail(ss), sep)

RECURSIVE Flatten(_)
Flatten(ss) == IF Len(ss) = 0 THEN <<>> ELSE ss[1] \o Flatten(Tail(ss))

(***************************************************************************)
(* The --resources values the model runs the tool on: every newline-join   *)
(* of at most MaxEntries entries of EntrySet (the empty value included,    *)
(* as the join of the one empty entry).                                    *)
(***************************************************************************)
EntrySet ==
  { <<"ns", Colon, "deployment", Colon, "foo">>,
    <<"ns", Colon, "configmap", Colon, "cm1">>,
    <<"ns", Colon, "secret", Colon, "s1">>,
    <<"ns", Colon, "badtype", Colon, "x">>,
    <<"ns", Colon, "deployment">>,
    <<"ns", Colon, "deployment", Colon, "foo", Colon, "x">>,
    <<>> }

SeqsUpTo(S, n) == UNION { [1..k -> S] : k \in 1..n }

ResourcesArgs == { Join(es, Newline) : es \in SeqsUpTo(EntrySet, MaxEntries) }

(***************************************************************************)
(* The switch of main's loop body: the ingestor an entry is dispatched to, *)
(* "invalid" for the format error, "unsupported" for the default case.     *)
(***************************************************************************)
DispatchLenLt(parts) ==
  IF Len(parts) < 3 THEN "invalid"
  ELSE IF parts[2] = <<"deployment">> THEN "deployment"
  ELSE IF parts[2] = <<"configmap">> THEN "configmap"
  ELSE IF parts[2] = <<"secret">> THEN "secret"
  ELSE "unsupported"

Dispatch(parts) ==
  IF Len(parts) # 3 THEN "invalid"
  ELSE IF parts[2] = <<"deployment">> THEN "deployment"
  ELSE IF parts[2] = <<"configmap">> THEN "configmap"
  ELSE IF parts[2] = <<"secret">> THEN "secret"
  ELSE "unsupported"

(***************************************************************************)
(* encoding/json on the two map types the tool marshals.  Characters are   *)
(* one-character strings; CharCode gives the byte order json.Marshal sorts *)
(* map keys by.  A map or byte slice that may be nil is an option: <<>> is  *)
(* nil, <<v>> holds v.                                                     *)
(***************************************************************************)
Nil == <<>>
Some(v) == <<v>>
IsNil(o) == Len(o) = 0

\* the characters of the model: the printable ASCII characters in code
\* order, U+0020 to U+005F and U+0061 to U+007E (a TLA+ string cannot hold
\* the grave accent, U+0060), four control characters, and the two line
\* separators U+2028 and U+2029, each written as one token
Printable ==
  <<
     " ","!","\"","#","$","%","&","'","(",")","*","+",",","-",".","/",
     "0","1","2","3","4","5","6","7","8","9",":",";","<","=",">","?",
     "@","A","B","C","D","E","F","G","H","I","J","K","L","M","N","O",
     "P","Q","R","S","T","U","V","W","X","Y","Z","[","\\","]","^","_" >>

PrintableFromA ==
  <<
     "a","b","c","d","e","f","g","h","i","j","k","l","m","n","o","p",
     "q","r","s","t","u","v","w","x","y","z","{","|","}","~" >>

PrintableSet ==
  { Printable[i] : i \in DOMAIN Printable }
    \cup { PrintableFromA[i] : i \in DOMAIN PrintableFromA }

LineSeparator == "U+2028"
ParagraphSeparator == "U+2029"

\* the code point of a character (UTF-8 byte order is code point order);
\* not defined outside the characters above
CharCode(c) ==
  CASE c = "\t" -> 9
    [] c = "\n" -> 10
    [] c = "\f" -> 12
    [] c = "\r" -> 13
    [] c = LineSeparator -> 8232
    [] c = ParagraphSeparator -> 8233
    [] \E i \in DOMAIN Printable : Printable[i] = c ->
         31 + (CHOOSE i \in DOMAIN Printable : Printable[i] = c)
    [] \E i \in DOMAIN PrintableFromA : PrintableFromA[i] = c ->
         96 + (CHOOSE i \in DOMAIN PrintableFromA : PrintableFromA[i] = c)

\* bytes.Compare on strings: s sorts strictly before t
RECURSIVE StrLess(_, _)
StrLess(s, t) ==
  IF Len(t) = 0 THEN FALSE
  ELSE IF Len(s) = 0 THEN TRUE
  ELSE IF CharCode(s[1]) # CharCode(t[1]) THEN CharCode(s[1]) < CharCode(t[1])
  ELSE StrLess(Tail(s), Tail(t))

RECURSIVE SortKeys(_)
SortKeys(K) ==
  IF K = {} THEN <<>>
  ELSE LET m == CHOOSE k \in K : \A o \in K \ {k} : StrLess(k, o)
       IN <<m>> \o SortKeys(K \ {m})

\* json string escaping with HTML escaping on (the default of json.Marshal):
\* the quote and the backslash, the control characters (short forms, Go
\* 1.22 and later), the HTML characters and the two line separators; every
\* other printable character is copied
EscapeChar(c) ==
  CASE c = "\"" -> <<"\\", "\"">>
    [] c = "\\" -> <<"\\", "\\">>
    [] c = "\t" -> <<"\\", "t">>
    [] c = "\n" -> <<"\\", "n">>
    [] c = "\f" -> <<"\\", "f">>
    [] c = "\r" -> <<"\\", "r">>
    [] c = "<"  -> <<"\\", "u", "0", "0", "3", "c">>
    [] c = ">"  -> <<"\\", "u", "0", "0", "3", "e">>
    [] c = "&"  -> <<"\\", "u", "0", "0", "2", "6">>
    [] c = LineSeparator -> <<"\\", "u", "2", "0", "2", "8">>
    [] c = ParagraphSeparator -> <<"\\", "u", "2", "0", "2", "9">>
    [] c \in PrintableSet \ {"\"", "\\", "<", ">", "&"} -> <<c>>

EncodeString(s) ==
  <<"\"">> \o Flatten([i \in DOMAIN s |-> EscapeChar(s[i])]) \o <<"\"">>

Base64Alphabet ==
  << "A","B","C","D","E","F","G","H","I","J","K","L","M","N","O","P",
     "Q","R","S","T","U","V","W","X","Y","Z","a","b","c","d","e","f",
     "g","h","i","j","k","l","m","n","o","p","q","r","s","t","u","v",
     "w","x","y","z","0","1","2","3","4","5","6","7","8","9","+","/" >>

B64(n) == Base64Alphabet[n + 1]

\* base64.StdEncoding: three bytes to four characters, "=" padding
RECURSIVE Base64(_)
Base64(bs) ==
  IF Len(bs) = 0 THEN <<>>
  ELSE IF Len(bs) = 1 THEN
    << B64(bs[1] \div 4), B64((bs[1] % 4) * 16), "=", "=" >>
  ELSE IF Len(bs) = 2 THEN
    << B64(bs[1] \div 4), B64((bs[1] % 4) * 16 + bs[2] \div 16),
       B64((bs[2] % 16) * 4), "=" >>
  ELSE
    << B64(bs[1] \div 4), B64((bs[1] % 4) * 16 + bs[2] \div 16),
       B64((bs[2] % 16) * 4 + bs[3] \div 64), B64(bs[3] % 64) >>
    \o Base64(SubSeq(bs, 4, Len(bs)))

EncodeBytes(bs) ==
  IF IsNil(bs) THEN <<"n", "u", "l", "l">>
  ELSE <<"\"">> \o Base64(bs[1]) \o <<"\"">>

\* json.Marshal(configMap.Data), a map[string]string
MarshalStringMap(o) ==
  IF IsNil(o) THEN <<"n", "u", "l", "l">>
  ELSE LET ks == SortKeys(DOMAIN o[1])
       IN <<"{">>
          \o Join([i \in DOMAIN ks |->
                     EncodeString(ks[i]) \o <<":">> \o EncodeString(o[1][ks[i]])],
                  ",")
          \o <<"}">>

\* json.Marshal(secret.Data), a map[string][]byte
MarshalBytesMap(o) ==
  IF IsNil(o) THEN <<"n", "u", "l", "l">>
  ELSE LET ks == SortKeys(DOMAIN o[1])
       IN <<"{">>
          \o Join([i \in DOMAIN ks |->
                     EncodeString(ks[i]) \o <<":">> \o EncodeBytes(o[1][ks[i]])],
                  ",")
          \o <<"}">>

\* json.Marshal of the spec and status structs of a deployment: the struct
\* encoders are not modelled field by field, the text is tagged with its value
MarshalStruct(v) == <<"{", v, "}">>


(***************************************************************************)
(* The store: the SQLite file at --db.  tables is the set of tables that   *)
(* exist, rows[t] the rows of table t in insertion order.  Every table has *)
(* an INTEGER PRIMARY KEY AUTOINCREMENT id and the tool never deletes, so  *)
(* the id of a new row is one more than the number of rows.                *)
(***************************************************************************)
TableOrder ==
  << "deployments", "deployment_logs", "configmaps", "secrets",
     "deployment_dependencies" >>

AllTables == { TableOrder[i] : i \in DOMAIN TableOrder }

EmptyStore == [tables |-> {}, rows |-> [t \in AllTables |-> <<>>]]

\* CREATE TABLE t (...): an error when t exists
ExecCreateTable(st, t, engineFails) ==
  IF engineFails \/ t \in st.tables
  THEN [st |-> st, err |-> TRUE]
  ELSE [st |-> [st EXCEPT !.tables = @ \cup {t}], err |-> FALSE]

\* db.Exec of CREATE TABLE IF NOT EXISTS t (...); engineFails is the engine
\* refusing the statement (unreadable or read-only file, I/O error)
ExecCreateTableIfNotExists(st, t, engineFails) ==
  IF engineFails THEN [st |-> st, err |-> TRUE]
  ELSE IF t \in st.tables THEN [st |-> st, err |-> FALSE]
  ELSE [st |-> [st EXCEPT !.tables = @ \cup {t}], err |-> FALSE]

\* initializeDatabase from statement k on; fault is the index of the
\* statement the engine refuses, 0 when it refuses none.  err is the index
\* of the statement whose error is returned, 0 for a nil error.
RECURSIVE InitializeFrom(_, _, _)
InitializeFrom(st, k, fault) ==
  IF k > Len(TableOrder) THEN [st |-> st, err |-> 0]
  ELSE LET r == ExecCreateTableIfNotExists(st, TableOrder[k], fault = k)
       IN IF r.err THEN [st |-> r.st, err |-> k]
          ELSE InitializeFrom(r.st, k + 1, fault)

initializeDatabase(st, fault) == InitializeFrom(st, 1, fault)

Faults == 0..Len(TableOrder)

\* db.Exec of INSERT INTO t (...) VALUES (...): the result carries the id
ExecInsert(st, t, fields, ok) ==
  IF ~ok \/ t \notin st.tables
  THEN [st |-> st, err |-> TRUE, id |-> 0]
  ELSE LET id == Len(st.rows[t]) + 1
       IN [st |-> [st EXCEPT !.rows[t] = Append(@, [id |-> id] @@ fields)],
           err |-> FALSE, id |-> id]

\* result.LastInsertId()
LastInsertIdRowCount(st, result) ==
  Len(st.rows["deployments"]) + Len(st.rows["deployment_logs"])
    + Len(st.rows["configmaps"]) + Len(st.rows["secrets"])

LastInsertId(st, result) == result.id

(***************************************************************************)
(* The cluster, as the answers it can give.                                *)
(***************************************************************************)
\* the pods of the cluster that can match a deployment's label selector
Pods == {1, 2, 3}

\* the pod lists a List call can return: distinct pods (a pod name is unique
\* in its namespace) in any order, since the loop takes pods.Items as given
PodListings ==
  { l \in UNION { [1..k -> Pods] : k \in 0..Cardinality(Pods) } :
      \A i, j \in DOMAIN l : i # j => l[i] # l[j] }

\* what the log stream of pod p yields when drained
PodOutput(p) == [i \in 1..p |-> 100 + p]

DeploymentObjects == { [spec |-> "spec", status |-> "status"] }

ConfigMapData ==
  { Nil,
    Some(<<>>),
    Some((<<"b">> :> <<"<", ">", "&">>) @@ (<<"a">> :> <<"x", "\"">>)
         @@ (<<"B", "c">> :> <<"\n", LineSeparator>>)) }

SecretData ==
  { Nil,
    Some((<<"a">> :> Some(<<77, 97, 110>>))),
    Some((<<"b">> :> Some(<<77>>)) @@ (<<"a">> :> Nil)) }

(***************************************************************************)
(* The ingestors.  env holds the outcome of every call the ingestor makes  *)
(* (TRUE: the call returns no error) and the object the cluster returns.   *)
(***************************************************************************)
\* processConfigMap: the store it leaves
processConfigMapNoReturn(st, namespace, name, env) ==
  IF ~env.fetch THEN st
  ELSE ExecInsert(st, "configmaps",
                  [namespace |-> namespace, name |-> name,
                   data |-> IF env.marshal THEN MarshalStringMap(env.data)
                            ELSE <<>>],
                  env.insert).st

processConfigMap(st, namespace, name, env) ==
  IF ~env.fetch THEN st
  ELSE IF ~env.marshal THEN st
  ELSE ExecInsert(st, "configmaps",
                  [namespace |-> namespace, name |-> name,
                   data |-> MarshalStringMap(env.data)],
                  env.insert).st

\* processSecret: the store it leaves
processSecret(st, namespace, name, env) ==
  IF ~env.fetch THEN st
  ELSE IF ~env.marshal THEN st
  ELSE ExecInsert(st, "secrets",
                  [namespace |-> namespace, name |-> name,
                   data |-> MarshalBytesMap(env.data)],
                  env.insert).st

\* processDeployment up to its call of processDeploymentLogs: the store it
\* leaves, whether the log collector is called, and the identifier passed
processDeploymentRollback(st, namespace, name, env) ==
  IF ~env.fetch \/ ~env.marshalSpec \/ ~env.marshalStatus
  THEN [st |-> st, logs |-> FALSE, deploymentID |-> 0]
  ELSE LET result == ExecInsert(st, "deployments",
                                [namespace |-> namespace, name |-> name,
                                 spec   |-> MarshalStruct(env.object.spec),
                                 status |-> MarshalStruct(env.object.status)],
                                env.insert)
       IN IF result.err
          THEN [st |-> result.st, logs |-> FALSE, deploymentID |-> 0]
          ELSE IF ~env.lastID
          THEN [st |-> st, logs |-> FALSE, deploymentID |-> 0]
          ELSE [st |-> result.st, logs |-> TRUE,
                deploymentID |-> LastInsertId(result.st, result)]

processDeployment(st, namespace, name, env) ==
  IF ~env.fetch \/ ~env.marshalSpec \/ ~env.marshalStatus
  THEN [st |-> st, logs |-> FALSE, deploymentID |-> 0]
  ELSE LET result == ExecInsert(st, "deployments",
                                [namespace |-> namespace, name |-> name,
                                 spec   |-> MarshalStruct(env.object.spec),
                                 status |-> MarshalStruct(env.object.status)],
                                env.insert)
       IN IF result.err
          THEN [st |-> result.st, logs |-> FALSE, deploymentID |-> 0]
          ELSE IF ~env.lastID
          THEN [st |-> result.st, logs |-> FALSE, deploymentID |-> 0]
          ELSE [st |-> result.st, logs |-> TRUE,
                deploymentID |-> LastInsertId(result.st, result)]

\* logsBuffer.Write(buf.Bytes())
WriteWithNewline(buffer, bytes) == buffer \o bytes \o <<10>>

Write(buffer, bytes) == buffer \o bytes

\* logsBuffer.Bytes(): the nil slice while no byte was ever written to the
\* buffer (writing zero bytes leaves it nil), the bytes written otherwise
Bytes(buffer) == IF Len(buffer) = 0 THEN Nil ELSE Some(buffer)

\* the INSERT INTO deployment_logs of processDeploymentLogs; the driver
\* binds a nil slice as NULL and any other slice as a blob, so the logs
\* column holds Nil for NULL and Some(b) for the blob b
insertLogsUnlessEmpty(st, deploymentID, buffer, ok) ==
  IF Len(buffer) = 0 THEN st
  ELSE ExecInsert(st, "deployment_logs",
                  [deployment_id |-> deploymentID, logs |-> Bytes(buffer)],
                  ok).st

insertLogs(st, deploymentID, buffer, ok) ==
  ExecInsert(st, "deployment_logs",
             [deployment_id |-> deploymentID, logs |-> Bytes(buffer)], ok).st

\* the step of main's for-range loop from entry i of n
LoopBreak(i, n) == n + 1

LoopAdvance(i, n) == i + 1

(***************************************************************************)
(* State.                                                                  *)
(*   pc          where main is: "start", "init", "loop", in an ingestor    *)
(*               ("deployment", "configmap", "secret"), in the log         *)
(*               collector ("list", "pods", "read", "return"), "exited"    *)
(*   arg         the value of --resources                                  *)
(*   resources   strings.Split(arg, "\n")                                  *)
(*   idx         the entry the for-range loop is at                        *)
(*   call        namespace and name the current ingestor was called with   *)
(*   store       the SQLite file                                           *)
(*   dbHandle    the *sql.DB: "none", "open", "closed"                     *)
(*   exitCode    -1 while the process runs, then its exit status           *)
(*   deploymentID, pods, podIdx, logsBuffer: locals of the log collector   *)
(*   openStreams the pods whose log stream is open                         *)
(*   deferred    the deferred logStream.Close() calls of the collector     *)
(* History, read by the properties only:                                   *)
(*   closeCount  the number of db.Close() calls                            *)
(*   dispatched  the ingestor invocations of the run, in order             *)
(*   outcome     of the last ingestion: its kind, the call that failed     *)
(*               ("none" when none did) and the data the cluster returned  *)
(*   opened, failed  the pods of the current listing whose stream opened,  *)
(*               failed to open                                            *)
(*   initLog     one record per initializeDatabase call                    *)
(***************************************************************************)
VARIABLES pc, arg, resources, idx, call, store, dbHandle, exitCode,
          deploymentID, pods, podIdx, logsBuffer, openStreams, deferred,
          closeCount, dispatched, outcome, opened, failed, initLog

vars == << pc, arg, resources, idx, call, store, dbHandle, exitCode,
           deploymentID, pods, podIdx, logsBuffer, openStreams, deferred,
           closeCount, dispatched, outcome, opened, failed, initLog >>

collectorVars == << deploymentID, pods, podIdx, logsBuffer, openStreams,
                    deferred, opened, failed >>

NoCall == [namespace |-> <<>>, name |-> <<>>]
NoOutcome == [kind |-> "none", failAt |-> "none", data |-> Nil]

\* the outcomes of the calls of an ingestor, from the call that fails
AllOK(failAt, steps) == [c \in steps |-> c # failAt]

\* what the --db file can hold when the run starts: nothing, or what an
\* earlier run left, a deployment with its logs and a configmap
OldRun ==
  LET s0 == initializeDatabase(EmptyStore, 0).st
      d  == processDeployment(s0, <<"ns">>, <<"old">>,
              AllOK("none", {"fetch", "marshalSpec", "marshalStatus",
                             "insert", "lastID"})
              @@ [object |-> [spec |-> "spec", status |-> "status"]])
      s1 == insertLogs(d.st, d.deploymentID, PodOutput(2), TRUE)
  IN processConfigMap(s1, <<"ns">>, <<"cm0">>,
       AllOK("none", {"fetch", "marshal", "insert", "lastID"})
       @@ [data |-> Some(<<>>)])

PriorStores == { EmptyStore, OldRun }

Init ==
  /\ pc = "start"
  /\ arg \in ResourcesArgs
  /\ store \in PriorStores
  /\ resources = <<>>
  /\ idx = 0
  /\ call = NoCall
  /\ dbHandle = "none"
  /\ exitCode = -1
  /\ deploymentID = 0
  /\ pods = <<>>
  /\ podIdx = 0
  /\ logsBuffer = <<>>
  /\ openStreams = {}
  /\ deferred = <<>>
  /\ closeCount = 0
  /\ dispatched = <<>>
  /\ outcome = NoOutcome
  /\ opened = {}
  /\ failed = {}
  /\ initLog = <<>>

(***************************************************************************)
(* main, up to the loop.                                                   *)
(***************************************************************************)
\* --resources is empty: log.Fatalf
StartNoResources ==
  /\ pc = "start"
  /\ arg = <<>>
  /\ pc' = "exited"
  /\ exitCode' = 1
  /\ UNCHANGED << arg, resources, idx, call, store, dbHandle, closeCount,
                  dispatched, outcome, initLog >>
  /\ UNCHANGED collectorVars

\* the client configuration, the client or sql.Open returns an error:
\* log.Fatalf before any handle exists
StartFatal ==
  /\ pc = "start"
  /\ arg # <<>>
  /\ resources' = Split(arg, Newline)
  /\ pc' = "exited"
  /\ exitCode' = 1
  /\ UNCHANGED << arg, idx, call, store, dbHandle, closeCount,
                  dispatched, outcome, initLog >>
  /\ UNCHANGED collectorVars

\* sql.Open succeeds; defer db.Close() is registered
StartOpen ==
  /\ pc = "start"
  /\ arg # <<>>
  /\ resources' = Split(arg, Newline)
  /\ dbHandle' = "open"
  /\ pc' = "init"
  /\ UNCHANGED << arg, idx, call, store, exitCode, closeCount,
                  dispatched, outcome, initLog >>
  /\ UNCHANGED collectorVars

\* err = initializeDatabase(db); on an error log.Fatalf, which calls
\* os.Exit(1): deferred functions do not run
InitializeDatabase ==
  /\ pc = "init"
  /\ \E fault \in Faults :
       LET r == initializeDatabase(store, fault)
       IN /\ store' = r.st
          /\ initLog' = Append(initLog, [fault |-> fault, err |-> r.err,
                                         before |-> store, after |-> r.st])
          /\ IF r.err # 0
             THEN pc' = "exited" /\ exitCode' = 1 /\ idx' = idx
             ELSE pc' = "loop" /\ exitCode' = exitCode /\ idx' = 1
  /\ UNCHANGED << arg, resources, call, dbHandle, closeCount,
                  dispatched, outcome >>
  /\ UNCHANGED collectorVars

\* the loop is over: main returns, the deferred db.Close() runs
MainReturn ==
  /\ pc = "loop"
  /\ idx > Len(resources)
  /\ dbHandle' = "closed"
  /\ closeCount' = closeCount + 1
  /\ pc' = "exited"
  /\ exitCode' = 0
  /\ UNCHANGED << arg, resources, idx, call, store, dispatched, outcome,
                  initLog >>
  /\ UNCHANGED collectorVars

\* one iteration of the loop up to the switch
DispatchEntry ==
  /\ pc = "loop"
  /\ idx <= Len(resources)
  /\ LET parts == Split(resources[idx], Colon)
         kind  == Dispatch(parts)
     IN IF kind \in {"invalid", "unsupported"}
        THEN /\ pc' = "loop"
             /\ idx' = LoopAdvance(idx, Len(resources))
             /\ UNCHANGED << call, dispatched >>
        ELSE /\ pc' = kind
             /\ idx' = idx
             /\ call' = [namespace |-> parts[1], name |-> parts[3]]
             /\ dispatched' = Append(dispatched,
                                [idx |-> idx, kind |-> kind,
                                 namespace |-> parts[1], name |-> parts[3]])
  /\ UNCHANGED << arg, resources, store, dbHandle, exitCode, closeCount,
                  outcome, initLog >>
  /\ UNCHANGED collectorVars

(***************************************************************************)
(* The ingestors.                                                          *)
(***************************************************************************)
ProcessConfigMap ==
  /\ pc = "configmap"
  /\ \E failAt \in {"none", "fetch", "marshal", "insert", "lastID"} :
     \E data \in IF failAt = "fetch" THEN {Nil} ELSE ConfigMapData :
       LET env == AllOK(failAt, {"fetch", "marshal", "insert", "lastID"})
                  @@ [data |-> data]
       IN /\ store' = processConfigMap(store, call.namespace, call.name, env)
          /\ outcome' = [kind |-> "configmap", failAt |-> failAt,
                         data |-> data]
  /\ pc' = "loop"
  /\ idx' = LoopAdvance(idx, Len(resources))
  /\ UNCHANGED << arg, resources, call, dbHandle, exitCode, closeCount,
                  dispatched, initLog >>
  /\ UNCHANGED collectorVars

ProcessSecret ==
  /\ pc = "secret"
  /\ \E failAt \in {"none", "fetch", "marshal", "insert", "lastID"} :
     \E data \in IF failAt = "fetch" THEN {Nil} ELSE SecretData :
       LET env == AllOK(failAt, {"fetch", "marshal", "insert", "lastID"})
                  @@ [data |-> data]
       IN /\ store' = processSecret(store, call.namespace, call.name, env)
          /\ outcome' = [kind |-> "secret", failAt |-> failAt, data |-> data]
  /\ pc' = "loop"
  /\ idx' = LoopAdvance(idx, Len(resources))
  /\ UNCHANGED << arg, resources, call, dbHandle, exitCode, closeCount,
                  dispatched, initLog >>
  /\ UNCHANGED collectorVars

ProcessDeployment ==
  /\ pc = "deployment"
  /\ \E failAt \in {"none", "fetch", "marshalSpec", "marshalStatus",
                    "insert", "lastID"} :
     \E object \in DeploymentObjects :
       LET env == AllOK(failAt, {"fetch", "marshalSpec", "marshalStatus",
                                 "insert", "lastID"})
                  @@ [object |-> object]
           r   == processDeployment(store, call.namespace, call.name, env)
       IN /\ store' = r.st
          /\ outcome' = [kind |-> "deployment", failAt |-> failAt,
                         data |-> Nil]
          /\ deploymentID' = r.deploymentID
          /\ IF r.logs
             THEN pc' = "list" /\ idx' = idx
             ELSE pc' = "loop" /\ idx' = LoopAdvance(idx, Len(resources))
  /\ UNCHANGED << arg, resources, call, dbHandle, exitCode, closeCount,
                  dispatched, initLog >>
  /\ UNCHANGED << pods, podIdx, logsBuffer, openStreams, deferred, opened,
                  failed >>

(***************************************************************************)
(* processDeploymentLogs.                                                  *)
(***************************************************************************)
\* Pods(namespace).List returns an error: return
ListPodsFails ==
  /\ pc = "list"
  /\ outcome' = [outcome EXCEPT !.failAt = "list"]
  /\ pc' = "loop"
  /\ idx' = LoopAdvance(idx, Len(resources))
  /\ deploymentID' = 0
  /\ UNCHANGED << arg, resources, call, store, dbHandle, exitCode,
                  closeCount, dispatched, initLog >>
  /\ UNCHANGED << pods, podIdx, logsBuffer, openStreams, deferred, opened,
                  failed >>

\* Pods(namespace).List returns the pods labelled app=<deploymentName>
ListPods ==
  /\ pc = "list"
  /\ \E l \in PodListings : pods' = l
  /\ podIdx' = 1
  /\ logsBuffer' = <<>>
  /\ pc' = "pods"
  /\ UNCHANGED << idx, call, store, outcome, dispatched >>
  /\ UNCHANGED << arg, resources, dbHandle, exitCode, closeCount, initLog >>
  /\ UNCHANGED << deploymentID, openStreams, deferred, opened, failed >>

\* GetLogs(pod.Name).Stream returns an error: continue
OpenStreamFails ==
  /\ pc = "pods"
  /\ podIdx <= Len(pods)
  /\ failed' = failed \cup {pods[podIdx]}
  /\ podIdx' = podIdx + 1
  /\ UNCHANGED << pc, idx, call, store, outcome, dispatched >>
  /\ UNCHANGED << arg, resources, dbHandle, exitCode, closeCount, initLog >>
  /\ UNCHANGED << deploymentID, pods, logsBuffer, openStreams, deferred,
                  opened >>

\* the stream opens; defer logStream.Close()
OpenStream ==
  /\ pc = "pods"
  /\ podIdx <= Len(pods)
  /\ openStreams' = openStreams \cup {pods[podIdx]}
  /\ deferred' = <<pods[podIdx]>> \o deferred
  /\ opened' = opened \cup {pods[podIdx]}
  /\ pc' = "read"
  /\ UNCHANGED << idx, call, store, outcome, dispatched >>
  /\ UNCHANGED << arg, resources, dbHandle, exitCode, closeCount, initLog >>
  /\ UNCHANGED << deploymentID, pods, podIdx, logsBuffer, failed >>

\* buf.ReadFrom(logStream); logsBuffer.Write(buf.Bytes())
ReadStream ==
  /\ pc = "read"
  /\ logsBuffer' = Write(logsBuffer, PodOutput(pods[podIdx]))
  /\ podIdx' = podIdx + 1
  /\ pc' = "pods"
  /\ UNCHANGED << idx, call, store, outcome, dispatched >>
  /\ UNCHANGED << arg, resources, dbHandle, exitCode, closeCount, initLog >>
  /\ UNCHANGED << deploymentID, pods, openStreams, deferred, opened, failed >>

\* the INSERT INTO deployment_logs after the loop; its error is only logged
InsertLogs ==
  /\ pc = "pods"
  /\ podIdx > Len(pods)
  /\ \E ok \in BOOLEAN :
       /\ store' = insertLogs(store, deploymentID, logsBuffer, ok)
       /\ outcome' = [outcome EXCEPT
                        !.failAt = IF ok THEN "none" ELSE "logInsert"]
  /\ pc' = "return"
  /\ UNCHANGED << idx, call, dispatched >>
  /\ UNCHANGED << arg, resources, dbHandle, exitCode, closeCount, initLog >>
  /\ UNCHANGED collectorVars

\* processDeploymentLogs returns: the deferred Close calls run, last first
LogsReturn ==
  /\ pc = "return"
  /\ openStreams' = openStreams \ { deferred[i] : i \in DOMAIN deferred }
  /\ deferred' = <<>>
  /\ deploymentID' = 0
  /\ pods' = <<>>
  /\ podIdx' = 0
  /\ logsBuffer' = <<>>
  /\ opened' = {}
  /\ failed' = {}
  /\ pc' = "loop"
  /\ idx' = LoopAdvance(idx, Len(resources))
  /\ UNCHANGED << call, store, outcome, dispatched >>
  /\ UNCHANGED << arg, resources, dbHandle, exitCode, closeCount, initLog >>

Next ==
  \/ StartNoResources
  \/ StartFatal
  \/ StartOpen
  \/ InitializeDatabase
  \/ MainReturn
  \/ DispatchEntry
  \/ ProcessConfigMap
  \/ ProcessSecret
  \/ ProcessDeployment
  \/ ListPodsFails
  \/ ListPods
  \/ OpenStreamFails
  \/ OpenStream
  \/ ReadStream
  \/ InsertLogs
  \/ LogsReturn

Spec == Init /\ [][Next]_vars

\* the process keeps executing: every call it makes returns
FairSpec == Spec /\ WF_vars(Next)

(***************************************************************************)
(* initializeDatabase on its own: the stores a run can leave, and calls of *)
(* initializeDatabase in succession on the same store.                     *)
(***************************************************************************)
FullEnv(steps) == AllOK("none", steps)

WithDeployment(st) ==
  LET d == processDeployment(st, <<"ns">>, <<"foo">>,
             FullEnv({"fetch", "marshalSpec", "marshalStatus", "insert",
                      "lastID"})
             @@ [object |-> [spec |-> "spec", status |-> "status"]])
  IN { d.st, insertLogs(d.st, d.deploymentID, PodOutput(2), TRUE) }

WithConfigMap(st) ==
  { st, processConfigMap(st, <<"ns">>, <<"cm1">>,
          FullEnv({"fetch", "marshal", "insert", "lastID"})
          @@ [data |-> Some(<<>>)]) }

WithSecret(st) ==
  { st, processSecret(st, <<"ns">>, <<"s1">>,
          FullEnv({"fetch", "marshal", "insert", "lastID"})
          @@ [data |-> Nil]) }

LeftStores ==
  LET full == initializeDatabase(EmptyStore, 0).st
      a == {full} \cup WithDeployment(full)
      b == UNION { WithConfigMap(st) : st \in a }
      c == UNION { WithSecret(st) : st \in b }
  IN c \cup { initializeDatabase(EmptyStore, f).st : f \in Faults }

InitStandalone ==
  /\ pc = "init"
  /\ store \in LeftStores
  /\ arg = <<>>
  /\ resources = <<>>
  /\ idx = 0
  /\ call = NoCall
  /\ dbHandle = "open"
  /\ exitCode = -1
  /\ deploymentID = 0
  /\ pods = <<>>
  /\ podIdx = 0
  /\ logsBuffer = <<>>
  /\ openStreams = {}
  /\ deferred = <<>>
  /\ closeCount = 0
  /\ dispatched = <<>>
  /\ outcome = NoOutcome
  /\ opened = {}
  /\ failed = {}
  /\ initLog = <<>>

CallInitializeDatabase ==
  /\ pc = "init"
  /\ Len(initLog) < MaxCalls
  /\ \E fault \in Faults :
       LET r == initializeDatabase(store, fault)
       IN /\ store' = r.st
          /\ initLog' = Append(initLog, [fault |-> fault, err |-> r.err,
                                         before |-> store, after |-> r.st])
  /\ UNCHANGED << pc, arg, resources, idx, call, dbHandle, exitCode,
                  closeCount, dispatched, outcome >>
  /\ UNCHANGED collectorVars

SpecInit == InitStandalone /\ [][CallInitializeDatabase]_vars

(***************************************************************************)
(* Properties.  The fields of the input are read here from the positions   *)
(* of the separators, not with Split.                                      *)
(***************************************************************************)
SepPositions(s, sep) == { i \in DOMAIN s : s[i] = sep }
NumFields(s, sep) == Cardinality(SepPositions(s, sep)) + 1
NthSep(s, sep, k) ==
  CHOOSE p \in SepPositions(s, sep) :
    Cardinality({ q \in SepPositions(s, sep) : q < p }) = k - 1
Field(s, sep, k) ==
  LET from == IF k = 1 THEN 1 ELSE NthSep(s, sep, k - 1) + 1
      to   == IF k = NumFields(s, sep) THEN Len(s) ELSE NthSep(s, sep, k) - 1
  IN [i \in 1..(to - from + 1) |-> s[from + i - 1]]

Entry(k) == Field(arg, Newline, k)
NumEntries == NumFields(arg, Newline)
KindWords == { <<"deployment">>, <<"configmap">>, <<"secret">> }
WellFormed(e) == NumFields(e, Colon) = 3 /\ Field(e, Colon, 2) \in KindWords
Invocation(k) ==
  [idx |-> k, kind |-> Field(Entry(k), Colon, 2)[1],
   namespace |-> Field(Entry(k), Colon, 1), name |-> Field(Entry(k), Colon, 3)]

RECURSIVE InvocationsFrom(_)
InvocationsFrom(k) ==
  IF k > NumEntries THEN <<>>
  ELSE (IF WellFormed(Entry(k)) THEN <<Invocation(k)>> ELSE <<>>)
       \o InvocationsFrom(k + 1)

Rows(t) == store.rows[t]
CollectorPcs == {"list", "pods", "read", "return"}
LogsOf(st, id) ==
  { i \in DOMAIN st.rows["deployment_logs"] :
      st.rows["deployment_logs"][i].deployment_id = id }

\* C1: at each entry of --resources the loop reaches, a well-formed entry
\* (three colon-parts, type deployment, configmap or secret) starts exactly
\* one ingestor invocation with its namespace and name; any other entry
\* starts none, leaves every table as it is, and the loop goes on to the
\* next entry; at the normal end the invocations of the run are exactly
\* the well-formed entries, in input order.
C1_ParseAndDispatch ==
  [][ /\ (pc = "loop" /\ idx <= NumEntries) =>
           IF WellFormed(Entry(idx))
           THEN /\ dispatched' = Append(dispatched, Invocation(idx))
                /\ pc' = Invocation(idx).kind
                /\ call' = [namespace |-> Invocation(idx).namespace,
                            name |-> Invocation(idx).name]
           ELSE /\ dispatched' = dispatched
                /\ store' = store
                /\ pc' = "loop"
                /\ idx' = idx + 1
      /\ (pc # "loop") => dispatched' = dispatched
      /\ (exitCode' = 0) => dispatched' = InvocationsFrom(1)
    ]_vars

C1_Witness ==
  /\ pc = "exited"
  /\ exitCode = 0
  /\ NumEntries = 2
  /\ ~WellFormed(Entry(1))
  /\ NumFields(Entry(1), Colon) = 3
  /\ Len(dispatched) = 1
  /\ dispatched[1].idx = 2
  /\ store.rows = EmptyStore.rows

\* C2: once the store is initialized the loop index only ever moves to the
\* next entry, at most one ingestor invocation is started per entry, in
\* input order, and whatever calls fail the run goes on to its normal end:
\* exit status 0 with every entry passed.
NormalEnd ==
  /\ pc = "exited"
  /\ exitCode = 0
  /\ idx = NumEntries + 1
  /\ dispatched = InvocationsFrom(1)

C2_FailuresDoNotStopTheRun ==
  /\ [][ /\ idx' = idx \/ idx' = idx + 1
         /\ (pc \notin {"start", "init", "exited"}) =>
              (exitCode' = -1 \/ (exitCode' = 0 /\ idx > NumEntries))
         /\ \A i, j \in DOMAIN dispatched' :
              i < j => dispatched'[i].idx < dispatched'[j].idx
       ]_vars
  /\ (pc = "loop") ~> NormalEnd

C2_Witness ==
  /\ NormalEnd
  /\ Len(dispatched) = 2
  /\ dispatched[1].kind = "deployment"
  /\ Rows("deployments") = <<>>
  /\ store.tables = AllTables
  /\ outcome.kind = "configmap"
  /\ outcome.failAt = "none"
  /\ Len(Rows("configmaps")) = 1

Last(q) == q[Len(q)]
IsAppend(new, old) == Len(new) = Len(old) + 1 /\ SubSeq(new, 1, Len(old)) = old
RowsExcept(st, t) == [u \in AllTables \ {t} |-> st.rows[u]]

\* C3: a deployment ingestion whose fetch, serialization and insert succeed
\* appends exactly one row to deployments, carrying the namespace and name
\* of its entry and an id no other row has, and changes no other table; the
\* log collector adds no deployments row, and the deployment_id of the log
\* row it inserts is the id of that one row, the last of the table.
C3_DeploymentRowAndLogLink ==
  [][ /\ (pc = "deployment" /\ pc' # "deployment"
            /\ outcome'.failAt \in {"none", "lastID"}) =>
           /\ IsAppend(store'.rows["deployments"], Rows("deployments"))
           /\ Last(store'.rows["deployments"]).namespace
                = Field(Entry(idx), Colon, 1)
           /\ Last(store'.rows["deployments"]).name
                = Field(Entry(idx), Colon, 3)
           /\ \A i \in DOMAIN Rows("deployments") :
                Rows("deployments")[i].id # Last(store'.rows["deployments"]).id
           /\ RowsExcept(store', "deployments") = RowsExcept(store, "deployments")
      /\ (pc \in CollectorPcs) =>
           store'.rows["deployments"] = Rows("deployments")
      /\ (pc = "pods" /\ pc' = "return"
            /\ store'.rows["deployment_logs"] # Rows("deployment_logs")) =>
           /\ IsAppend(store'.rows["deployment_logs"], Rows("deployment_logs"))
           /\ { i \in DOMAIN Rows("deployments") :
                  Rows("deployments")[i].id
                    = Last(store'.rows["deployment_logs"]).deployment_id }
                = { Len(Rows("deployments")) }
           /\ Last(Rows("deployments")).namespace = Field(Entry(idx), Colon, 1)
           /\ Last(Rows("deployments")).name = Field(Entry(idx), Colon, 3)
    ]_vars

C3_Witness ==
  /\ pc = "return"
  /\ outcome.failAt = "none"
  /\ Len(Rows("deployments")) = 3
  /\ Last(Rows("deployments")).name = <<"foo">>
  /\ Last(Rows("deployment_logs")).deployment_id = 3
  /\ Len(Rows("deployment_logs")) = 2

\* the bytes the streams of the listed pods yield, failed pods left out
ExpectedLogs ==
  Flatten([i \in DOMAIN pods |->
             IF pods[i] \in failed THEN <<>> ELSE PodOutput(pods[i])])

\* C4 as claimed: when the collector inserts its log row, every listed pod
\* has been tried (its stream opened or failed to open), and the row holds a
\* blob equal to the output of the pods whose stream opened, concatenated in
\* listing order with nothing between; the collector never ends the process.
C4_LogBlobIsConcatenation ==
  [][ /\ (pc = "pods" /\ pc' = "return") =>
           /\ opened \cup failed = { pods[i] : i \in DOMAIN pods }
           /\ opened \cap failed = {}
           /\ logsBuffer = ExpectedLogs
           /\ (outcome'.failAt = "none") =>
                /\ IsAppend(store'.rows["deployment_logs"],
                            Rows("deployment_logs"))
                /\ Last(store'.rows["deployment_logs"]).logs
                     = Some(ExpectedLogs)
      /\ (pc \in CollectorPcs) => (exitCode' = -1 /\ pc' # "exited")
    ]_vars

\* C4 amended: as claimed whenever the streams that opened yielded at least
\* one byte; when they yielded none (no stream opened), the logs column of
\* the row is NULL, not a blob of length zero.
C4_LogBlobIsConcatenationOrNull ==
  [][ /\ (pc = "pods" /\ pc' = "return") =>
           /\ opened \cup failed = { pods[i] : i \in DOMAIN pods }
           /\ opened \cap failed = {}
           /\ logsBuffer = ExpectedLogs
           /\ (outcome'.failAt = "none") =>
                /\ IsAppend(store'.rows["deployment_logs"],
                            Rows("deployment_logs"))
                /\ IF Len(ExpectedLogs) = 0
                     THEN IsNil(Last(store'.rows["deployment_logs"]).logs)
                     ELSE Last(store'.rows["deployment_logs"]).logs
                            = << ExpectedLogs >>
      /\ (pc \in CollectorPcs) => (exitCode' = -1 /\ pc' # "exited")
    ]_vars

C4_Witness ==
  /\ pc = "return"
  /\ outcome.failAt = "none"
  /\ pods = <<3, 1, 2>>
  /\ failed = {1}
  /\ Last(Rows("deployment_logs")).logs = << PodOutput(3) \o PodOutput(2) >>
  /\ Last(Rows("deployment_logs")).logs = << <<103, 103, 103, 102, 102>> >>

\* C5 as claimed: when the collector returns after a pod listing that
\* succeeded, exactly one log row refers to the deployment, and it holds a
\* blob of length zero when no pod was listed; and no deployment ever has two
\* log rows.
C5_OneLogRecordWheneverListed ==
  /\ (pc = "return") =>
       /\ Cardinality(LogsOf(store, deploymentID)) = 1
       /\ (Len(pods) = 0) =>
            \A i \in LogsOf(store, deploymentID) :
              Rows("deployment_logs")[i].logs = Some(<<>>)
  /\ \A d \in DOMAIN Rows("deployments") :
       Cardinality(LogsOf(store, Rows("deployments")[d].id)) <= 1

\* C5 amended: after a listing that succeeded the collector executes its one
\* INSERT; unless that INSERT fails, exactly one log row refers to the
\* deployment, and its logs column is NULL (not a blob of length zero) when
\* no pod was listed; when the INSERT fails, no row does.  No deployment
\* ever has two log rows, and before the INSERT the deployment being
\* ingested has none.
C5_OneLogRecordUnlessInsertFails ==
  /\ (pc = "return") =>
       /\ Cardinality(LogsOf(store, deploymentID))
            = IF outcome.failAt = "logInsert" THEN 0 ELSE 1
       /\ (Len(pods) = 0) =>
            \A i \in LogsOf(store, deploymentID) :
              IsNil(Rows("deployment_logs")[i].logs)
  /\ (pc \in {"list", "pods", "read"}) => LogsOf(store, deploymentID) = {}
  /\ \A d \in DOMAIN Rows("deployments") :
       Cardinality(LogsOf(store, Rows("deployments")[d].id)) <= 1

C5_Witness ==
  /\ pc = "return"
  /\ outcome.failAt = "none"
  /\ Len(pods) = 0
  /\ Cardinality(LogsOf(store, deploymentID)) = 1
  /\ IsNil(Last(Rows("deployment_logs")).logs)
  /\ Last(Rows("deployment_logs")).deployment_id = deploymentID

\* the JSON text of the data mappings of ConfigMapData and SecretData, as Go
\* prints it: null, {}, the three-key configmap with B before a and every
\* special character escaped, {"a":"TWFu"}, {"a":null,"b":"TQ=="}
ExpectedJSON(kind, data) ==
  IF IsNil(data) THEN <<"n", "u", "l", "l">>
  ELSE IF DOMAIN data[1] = {} THEN <<"{", "}">>
  ELSE IF kind = "configmap" THEN
    << "{", "\"", "B", "c", "\"", ":",
            "\"", "\\", "n", "\\", "u", "2", "0", "2", "8", "\"", ",",
       "\"", "a", "\"", ":", "\"", "x", "\\", "\"", "\"", ",",
       "\"", "b", "\"", ":",
            "\"", "\\", "u", "0", "0", "3", "c", "\\", "u", "0", "0", "3", "e",
            "\\", "u", "0", "0", "2", "6", "\"", "}" >>
  ELSE IF Cardinality(DOMAIN data[1]) = 1 THEN
    << "{", "\"", "a", "\"", ":", "\"", "T", "W", "F", "u", "\"", "}" >>
  ELSE
    << "{", "\"", "a", "\"", ":", "n", "u", "l", "l", ",",
       "\"", "b", "\"", ":", "\"", "T", "Q", "=", "=", "\"", "}" >>

TableOf(kind) == IF kind = "configmap" THEN "configmaps" ELSE "secrets"

\* C6: a configmap (secret) ingestion whose fetch, serialization and insert
\* succeed appends exactly one row to configmaps (secrets), carrying the
\* namespace and name of its entry and the JSON text of the fetched data
\* mapping, and changes no other table; when one of the three fails the
\* store is left as it was.
C6_ConfigMapAndSecretRows ==
  [][ (pc \in {"configmap", "secret"}) =>
        /\ outcome'.kind = pc
        /\ store'.tables = store.tables
        /\ IF outcome'.failAt \in {"none", "lastID"}
           THEN /\ IsAppend(store'.rows[TableOf(pc)], Rows(TableOf(pc)))
                /\ Last(store'.rows[TableOf(pc)]).namespace
                     = Field(Entry(idx), Colon, 1)
                /\ Last(store'.rows[TableOf(pc)]).name
                     = Field(Entry(idx), Colon, 3)
                /\ Last(store'.rows[TableOf(pc)]).data
                     = ExpectedJSON(pc, outcome'.data)
                /\ RowsExcept(store', TableOf(pc)) = RowsExcept(store, TableOf(pc))
           ELSE store' = store
    ]_vars

C6_Witness ==
  /\ pc = "loop"
  /\ idx = 2
  /\ Entry(1) = <<"ns", Colon, "configmap", Colon, "cm1">>
  /\ outcome.kind = "configmap"
  /\ outcome.failAt = "none"
  /\ ~IsNil(outcome.data)
  /\ Cardinality(DOMAIN outcome.data[1]) = 3
  /\ Len(Rows("configmaps")) = 1
  /\ Rows("configmaps")[1].namespace = <<"ns">>
  /\ Rows("configmaps")[1].name = <<"cm1">>
  /\ Rows("configmaps")[1].data = ExpectedJSON("configmap", outcome.data)
  /\ Rows("secrets") = <<>>
  /\ Rows("deployments") = <<>>

\* C7 as claimed: at most one log stream is open at any time; none is open
\* when the next stream is about to be opened or the log row inserted (the
\* collector is at the head of its loop); none is open outside the collector.
C7_StreamsReleasedAfterDrain ==
  /\ Cardinality(openStreams) <= 1
  /\ (pc = "pods") => openStreams = {}
  /\ (pc \notin CollectorPcs) => openStreams = {}

\* C8 as claimed: once the store handle was opened, a process that has
\* exited has closed it, and Close is called exactly once.
C8_HandleClosedOnEveryExit ==
  /\ closeCount <= 1
  /\ (pc = "exited" /\ Len(initLog) > 0) =>
       (dbHandle = "closed" /\ closeCount = 1)

\* C9: no step removes or changes a deployments row; an ingestion that fails
\* after its insert (identifier retrieval, pod listing, log insert) leaves
\* the row it inserted as the last row of deployments, with no log row
\* referring to it, from the return of the ingestor to the next dispatch or
\* the end of the run.
FailedAfterInsert ==
  /\ pc \in {"return", "loop", "exited"}
  /\ outcome.kind = "deployment"
  /\ outcome.failAt \in {"lastID", "list", "logInsert"}

C9_NoRollback ==
  /\ [][ /\ SubSeq(store'.rows["deployments"], 1, Len(Rows("deployments")))
              = Rows("deployments")
         /\ Len(store'.rows["deployments"]) >= Len(Rows("deployments"))
         /\ (pc = "list" /\ pc' = "loop") =>
              (store' = store /\ outcome'.failAt = "list")
       ]_vars
  /\ [](FailedAfterInsert =>
          /\ Len(Rows("deployments")) > 0
          /\ Last(Rows("deployments")).namespace = call.namespace
          /\ Last(Rows("deployments")).name = call.name
          /\ LogsOf(store, Last(Rows("deployments")).id) = {})

C9_Witness ==
  /\ pc = "exited"
  /\ exitCode = 0
  /\ outcome.kind = "deployment"
  /\ outcome.failAt = "list"
  /\ Len(Rows("deployments")) = 1
  /\ Rows("deployments")[1].name = <<"foo">>
  /\ Rows("deployment_logs") = <<>>

\* C10: an initializeDatabase call returns an error only when the engine
\* refuses a statement, never because a table exists; it removes no table
\* and changes no row; when the engine refuses nothing it leaves the five
\* tables, and a second call in succession returns nil like the first and
\* leaves the store exactly as the first left it.
C10_InitializeIdempotent ==
  \A i \in DOMAIN initLog :
    LET c == initLog[i]
    IN /\ (c.err # 0) => c.fault = c.err
       /\ (c.fault = 0) => (c.err = 0 /\ c.after.tables = AllTables)
       /\ c.before.tables \subseteq c.after.tables
       /\ c.after.rows = c.before.rows
       /\ (i > 1 /\ initLog[i - 1].err = 0 /\ c.fault = 0) =>
            (c.err = 0 /\ c.after = initLog[i - 1].after)

C10_Witness ==
  /\ Len(initLog) = 2
  /\ initLog[1].err = 0
  /\ initLog[2].err = 0
  /\ initLog[1].before.tables # AllTables
  /\ initLog[2].after.tables = AllTables
  /\ initLog[2].after = initLog[1].after
====
